---- MODULE Spec2Model ----
(***************************************************************************)
(* A model of src/src/utc_offset.rs: the UtcOffset value type (checked and *)
(* unchecked constructors, accessors, Display), the format-engine adapter  *)
(* and the local-offset resolver with its platform branches.               *)
(*                                                                         *)
(* A run is the life of one value: a constructor or a resolver entry point *)
(* is called (pc "start" -> "built", "failed" or "panicked": call, ret,    *)
(* self; for an entry point also the build env, the instant datetime, the  *)
(* host's answers os and the resolver's result raw), then one accessor or  *)
(* formatter is applied to the value it returned ("built" -> "used": acc,  *)
(* out).  UtcOffset::parse is one more way to a value ("start" -> "built"  *)
(* or "failed"), and it reads back the text format wrote ("used" ->        *)
(* "parsed"); either way it leaves input, items and parsed.                *)
(***************************************************************************)
EXTENDS Integers, Sequences, FiniteSets, TLC

VARIABLES env, pc, call, datetime, os, raw, ret, self, acc, out, input, items,
          parsed

vars ==
    <<env, pc, call, datetime, os, raw, ret, self, acc, out, input, items, parsed>>

(***************************************************************************)
(* Machine integer types.                                                  *)
(***************************************************************************)
I8Min == -128
I8Max == 127
U8Max == 255
I16Min == -32768
I16Max == 32767
U16Max == 65535
I32Max == 2147483647
I32Min == -I32Max - 1

\* How far past each documented bound the constructor arguments are drawn.
Slack == 2

\* Rust's `/` on signed integers truncates toward zero; \div floors.
TruncDiv(a, b) ==
    IF a >= 0 \/ a % b = 0 THEN a \div b ELSE (a \div b) + 1

\* `x as i8` and `x as i16`: the low bits, reinterpreted as signed.
as_i8(x) == ((x - I8Min) % (U8Max + 1)) + I8Min
as_i16(x) == ((x - I16Min) % (U16Max + 1)) + I16Min

(***************************************************************************)
(* Results.                                                                *)
(***************************************************************************)
Ok(s) == [tag |-> "Ok", seconds |-> s]
\* A UtcOffset returned as it is, outside a Result.
Value(s) == [tag |-> "Value", seconds |-> s]
RangeErr(name, lo, hi, v) ==
    [tag |-> "Err", error |-> "ComponentRangeError", name |-> name,
     minimum |-> lo, maximum |-> hi, value |-> v]
Panic == [tag |-> "panic"]

\* ensure_value_in_range!(value in lo => hi): the constructor goes on exactly
\* when lo <= value <= hi and returns a ComponentRangeError otherwise.
ensure_value_in_range(v, lo, hi) == lo <= v /\ v <= hi

(***************************************************************************)
(* The value type.                                                         *)
(***************************************************************************)
UTC == 0

east_hours(h) ==
    IF ensure_value_in_range(h, 0, 23) THEN Ok(h * 3600)
    ELSE RangeErr("hours", 0, 23, h)

west_hours(h) ==
    IF ensure_value_in_range(h, 0, 23) THEN Ok(h * (-3600))
    ELSE RangeErr("hours", 0, 23, h)

hours(h) ==
    IF ensure_value_in_range(h, -23, 23) THEN Ok(h * 3600)
    ELSE RangeErr("hours", -23, 23, h)

east_minutes(m) ==
    IF ensure_value_in_range(m, 0, 1439) THEN Ok(m * 60)
    ELSE RangeErr("minutes", 0, 1439, m)

\* west_minutes that forgets the sign.
west_minutes_unsigned(m) ==
    IF ensure_value_in_range(m, 0, 1439) THEN Ok(m * 60)
    ELSE RangeErr("minutes", 0, 1439, m)

west_minutes(m) ==
    IF ensure_value_in_range(m, 0, 1439) THEN Ok(m * (-60))
    ELSE RangeErr("minutes", 0, 1439, m)

minutes(m) ==
    IF ensure_value_in_range(m, -1439, 1439) THEN Ok(m * 60)
    ELSE RangeErr("minutes", -1439, 1439, m)

east_seconds(s) ==
    IF ensure_value_in_range(s, 0, 86399) THEN Ok(s)
    ELSE RangeErr("seconds", 0, 86399, s)

west_seconds(s) ==
    IF ensure_value_in_range(s, 0, 86399) THEN Ok(-s)
    ELSE RangeErr("seconds", 0, 86399, s)

\* seconds that lets a whole day through.
seconds_whole_day(s) ==
    IF ensure_value_in_range(s, -86400, 86400) THEN Ok(s)
    ELSE RangeErr("seconds", -86400, 86400, s)

seconds(s) ==
    IF ensure_value_in_range(s, -86399, 86399) THEN Ok(s)
    ELSE RangeErr("seconds", -86399, 86399, s)

seconds_unchecked(s) == Value(s)

as_seconds(off) == off

\* as_minutes with the divisor of as_hours.
as_minutes_by_hour(off) == as_i16(TruncDiv(as_seconds(off), 3600))

as_minutes(off) == as_i16(TruncDiv(as_seconds(off), 60))

\* as_hours rounding down instead of toward zero.
as_hours_floor(off) == as_i8(as_seconds(off) \div 3600)

as_hours(off) == as_i8(TruncDiv(as_seconds(off), 3600))

\* Duration::seconds(self.seconds as i64): a whole number of seconds.
as_duration(off) == [whole_seconds |-> off]

(***************************************************************************)
(* Arithmetic of fmt.  An overflowing `abs` or `-` panics in a build with  *)
(* overflow checks and wraps in one without; [ok |-> FALSE] is the panic.  *)
(***************************************************************************)
Val(v) == [ok |-> TRUE, v |-> v]
Overflow == [ok |-> FALSE, v |-> 0]

\* {i8,i16,i32}::abs on a value of the type whose minimum is lo.
abs(x, lo, checks) ==
    IF x = lo THEN (IF checks THEN Overflow ELSE Val(lo))
    ELSE Val(IF x < 0 THEN -x ELSE x)

\* a - b in i16, for b within i8 * 60.
sub_i16(a, b, checks) ==
    IF a - b > I16Max \/ a - b < I16Min
    THEN (IF checks THEN Overflow ELSE Val(as_i16(a - b)))
    ELSE Val(a - b)

\* a - b in i32, computed without leaving the 32-bit range.
sub_i32(a, b, checks) ==
    IF b < 0 /\ a > I32Max + b
    THEN (IF checks THEN Overflow ELSE Val((a - I32Max - 1) - (b + I32Max + 1)))
    ELSE IF b > 0 /\ a < I32Min + b
    THEN (IF checks THEN Overflow ELSE Val((a + I32Max + 1) - (b - I32Max - 1)))
    ELSE Val(a - b)

(***************************************************************************)
(* Text.                                                                   *)
(***************************************************************************)
Digit(d) ==
    CASE d = 0 -> "0" [] d = 1 -> "1" [] d = 2 -> "2" [] d = 3 -> "3"
      [] d = 4 -> "4" [] d = 5 -> "5" [] d = 6 -> "6" [] d = 7 -> "7"
      [] d = 8 -> "8" [] d = 9 -> "9"

RECURSIVE Digits(_)
Digits(n) == IF n < 10 THEN Digit(n) ELSE Digits(n \div 10) \o Digit(n % 10)

\* "{}" of an integer.
Itoa(n) ==
    IF n >= 0 THEN Digits(n)
    ELSE IF n = I32Min THEN "-" \o Digits(I32Max \div 10) \o Digit((I32Max % 10) + 1)
    ELSE "-" \o Digits(-n)

\* "{:02}" of an integer: zero-padded to a width of two, the sign counted.
Pad2(n) == IF 0 <= n /\ n < 10 THEN "0" \o Digit(n) ELSE Itoa(n)

Text(t) == [tag |-> "Text", text |-> t]

\* fmt whose minutes still hold the hours.
fmt_double_count(off, checks) ==
    LET sign == IF off < 0 THEN "-" ELSE "+"
        hrs == abs(as_hours(off), I8Min, checks)
        mins == abs(as_minutes(off), I16Min, checks)
        sabs == abs(as_seconds(off), I32Min, checks)
        secs == IF hrs.ok /\ mins.ok /\ sabs.ok
                THEN sub_i32(sabs.v, mins.v * 60, checks) ELSE Overflow
    IN  IF ~secs.ok THEN Panic
        ELSE Text(sign \o Itoa(hrs.v)
                  \o (IF mins.v # 0 \/ secs.v # 0 THEN ":" \o Pad2(mins.v) ELSE "")
                  \o (IF secs.v # 0 THEN ":" \o Pad2(secs.v) ELSE ""))

\* fmt that takes zero for west: the sign is '-' unless seconds > 0.
fmt_zero_minus(off, checks) ==
    LET sign == IF off <= 0 THEN "-" ELSE "+"
        a == IF off < 0 THEN -off ELSE off
    IN  Text(sign \o Itoa(a \div 3600))

\* impl Display for UtcOffset.
fmt(off, checks) ==
    LET sign == IF off < 0 THEN "-" ELSE "+"
        hrs == abs(as_hours(off), I8Min, checks)
        mabs == abs(as_minutes(off), I16Min, checks)
        mins == IF hrs.ok /\ mabs.ok THEN sub_i16(mabs.v, hrs.v * 60, checks)
                ELSE Overflow
        sabs == abs(as_seconds(off), I32Min, checks)
        s1 == IF mins.ok /\ sabs.ok THEN sub_i32(sabs.v, hrs.v * 3600, checks)
              ELSE Overflow
        secs == IF s1.ok THEN sub_i32(s1.v, mins.v * 60, checks) ELSE Overflow
    IN  IF ~secs.ok THEN Panic
        ELSE Text(sign \o Itoa(hrs.v)
                  \o (IF mins.v # 0 \/ secs.v # 0 THEN ":" \o Pad2(mins.v) ELSE "")
                  \o (IF secs.v # 0 THEN ":" \o Pad2(secs.v) ELSE ""))

\* The format engine's rendering of "%z": the sign of the offset, then the
\* whole hours and the remaining whole minutes, two digits each.
format_z(off) ==
    LET h == TruncDiv(off, 3600)
        m == TruncDiv(off, 60) - 60 * h
    IN  (IF off < 0 THEN "-" ELSE "+")
            \o Pad2(IF h < 0 THEN -h ELSE h) \o Pad2(IF m < 0 THEN -m ELSE m)

\* format that writes the text of Display.
format_canonical(off) == fmt(off, FALSE)

\* UtcOffset::format and lazy_format(..).to_string() with the format "%z".
format(off) == Text(format_z(off))

(***************************************************************************)
(* Parsing.  The engine (crate::format::parse) walks the format and the    *)
(* text together and fills the ParsedItems; UtcOffset::parse takes the     *)
(* offset out of them.                                                     *)
(***************************************************************************)
ParseErr(e) == [tag |-> "Err", error |-> e]
InsufficientInformation == ParseErr("InsufficientInformation")

\* ParsedItems::new(): nothing parsed yet.
NoItems == [offset |-> [some |-> FALSE, seconds |-> 0], hour |-> [some |-> FALSE, v |-> 0]]
OkItems(it) == [tag |-> "Ok", items |-> it]

IsDigit(c) == \E d \in 0..9 : Digit(d) = c
DigitVal(c) == CHOOSE d \in 0..9 : Digit(d) = c
\* try_consume_exact_digits: the first n characters are digits.
HasDigits(t, n) == Len(t) >= n /\ \A i \in 1..n : IsDigit(SubSeq(t, i, i))
TwoDigitVal(t) == 10 * DigitVal(SubSeq(t, 1, 1)) + DigitVal(SubSeq(t, 2, 2))
Rest(t, n) == SubSeq(t, n + 1, Len(t))

\* %z: a sign, two digits of hours, two digits of minutes; the offset is
\* that many minutes east or west, when it is one of a day.
parse_z(t) ==
    IF Len(t) < 1 \/ ~(SubSeq(t, 1, 1) \in {"+", "-"}) THEN ParseErr("InvalidOffset")
    ELSE IF ~HasDigits(Rest(t, 1), 4) THEN ParseErr("InvalidOffset")
    ELSE LET sign == IF SubSeq(t, 1, 1) = "-" THEN -1 ELSE 1
             hh == TwoDigitVal(SubSeq(t, 2, 3))
             mm == TwoDigitVal(SubSeq(t, 4, 5))
             r == minutes(sign * (hh * 60 + mm))
         IN  IF r.tag = "Ok"
             THEN [tag |-> "Ok", seconds |-> r.seconds, rest |-> Rest(t, 5)]
             ELSE ParseErr("InvalidOffset")

\* %H: two digits of an hour of the day.
parse_H(t) ==
    IF HasDigits(t, 2) /\ TwoDigitVal(t) <= 23
    THEN [tag |-> "Ok", v |-> TwoDigitVal(t), rest |-> Rest(t, 2)]
    ELSE ParseErr("InvalidHour")

\* The engine's parse(s, format): specifier by specifier, a literal of the
\* format matching itself, and the text used up at the end.
RECURSIVE parse_walk(_, _, _)
parse_walk(f, t, it) ==
    IF f = "" THEN (IF t = "" THEN OkItems(it) ELSE ParseErr("UnexpectedCharacter"))
    ELSE IF Head(f) = "%" /\ Len(f) >= 2 /\ SubSeq(f, 2, 2) = "z"
    THEN LET r == parse_z(t)
         IN  IF r.tag = "Err" THEN r
             ELSE parse_walk(Rest(f, 2), r.rest,
                             [it EXCEPT !.offset = [some |-> TRUE, seconds |-> r.seconds]])
    ELSE IF Head(f) = "%" /\ Len(f) >= 2 /\ SubSeq(f, 2, 2) = "H"
    THEN LET r == parse_H(t)
         IN  IF r.tag = "Err" THEN r
             ELSE parse_walk(Rest(f, 2), r.rest,
                             [it EXCEPT !.hour = [some |-> TRUE, v |-> r.v]])
    ELSE IF t = "" THEN ParseErr("UnexpectedEndOfString")
    ELSE IF Head(t) = Head(f) THEN parse_walk(Tail(f), Tail(t), it)
    ELSE ParseErr("UnexpectedCharacter")

parse_items(s, f) == parse_walk(f, s, NoItems)

\* items.offset.ok_or(ParseError::InsufficientInformation)
try_from_parsed_items(it) ==
    IF it.offset.some THEN Ok(it.offset.seconds) ELSE InsufficientInformation

\* parse that takes UTC when the items hold no offset.
parse_or_utc(s, f) ==
    LET r == parse_items(s, f)
    IN  IF r.tag = "Err" THEN r
        ELSE IF r.items.offset.some THEN Ok(r.items.offset.seconds) ELSE Ok(UTC)

\* UtcOffset::parse: Self::try_from_parsed_items(parse(&s.into(), format)?)
parse(s, f) ==
    LET r == parse_items(s, f)
    IN  IF r.tag = "Err" THEN r ELSE try_from_parsed_items(r.items)

(***************************************************************************)
(* Wide integers.  An i64 of the program (a timestamp, tm_gmtoff, a        *)
(* difference of timestamps) is held as days and seconds of the day:       *)
(* [d, s] is d * 86400 + s with 0 <= s < 86400, so that values outside the *)
(* 32-bit range stay exact.                                                *)
(***************************************************************************)
W(d, s) == [d |-> d + (s \div 86400), s |-> s % 86400]
WSub(a, b) == W(a.d - b.d, a.s - b.s)
WLe(a, b) == a.d < b.d \/ (a.d = b.d /\ a.s <= b.s)
WI32Min == W(-24856, 74752)
WI32Max == W(24855, 11647)
FitsI32(w) == WLe(WI32Min, w) /\ WLe(w, WI32Max)

Some(s) == [tag |-> "Some", seconds |-> s]
None == [tag |-> "None"]

\* i64 -> i32 by an `as i32` cast: the low 32 bits.
try_into_i32_wrapping(w) ==
    LET x == IF ~WLe(w, WI32Max) THEN WSub(w, W(49710, 23296))
             ELSE IF ~WLe(WI32Min, w) THEN WSub(w, W(-49711, 63104))
             ELSE w
    IN  [some |-> TRUE,
         v |-> IF x.d < 0 THEN (x.d + 1) * 86400 + (x.s - 86400)
               ELSE x.d * 86400 + x.s]

\* i64 -> i32 by try_into().ok(): the value, or nothing when it does not fit.
try_into_i32(w) ==
    IF FitsI32(w)
    THEN [some |-> TRUE,
          v |-> IF w.d < 0 THEN (w.d + 1) * 86400 + (w.s - 86400)
                ELSE w.d * 86400 + w.s]
    ELSE [some |-> FALSE, v |-> 0]

\* .try_into().ok().map(UtcOffset::seconds).and_then(Result::ok)
checked_offset(w) ==
    LET n == try_into_i32(w)
    IN  IF ~n.some THEN None
        ELSE IF seconds(n.v).tag = "Ok" THEN Some(seconds(n.v).seconds)
        ELSE None

(***************************************************************************)
(* Calendar: what the crate's Date and OffsetDateTime give the resolver.   *)
(***************************************************************************)
is_leap_year(y) == y % 4 = 0 /\ (y % 100 # 0 \/ y % 400 = 0)
days_in_year(y) == IF is_leap_year(y) THEN 366 ELSE 365
LeapsThrough(y) == (y \div 4) - (y \div 100) + (y \div 400)
\* Days from 1970-01-01 to day `ordinal` of `year`.
DaysFromEpoch(year, ordinal) ==
    365 * (year - 1970) + LeapsThrough(year - 1) - LeapsThrough(1969) + ordinal - 1

\* OffsetDateTime::timestamp of a UTC date-time.
timestamp(dt) ==
    W(DaysFromEpoch(dt.year, dt.ordinal),
      dt.hour * 3600 + dt.minute * 60 + dt.second)

\* Date::from_yo: the year within -100_000..100_000, the ordinal a day of it.
from_yo(year, ordinal) ==
    /\ ensure_value_in_range(year, -100000, 100000)
    /\ ensure_value_in_range(ordinal, 1, days_in_year(year))

\* Date::try_with_hms.
try_with_hms(hour, minute, second) ==
    /\ ensure_value_in_range(hour, 0, 23)
    /\ ensure_value_in_range(minute, 0, 59)
    /\ ensure_value_in_range(second, 0, 59)

\* Date::month_day: the month and the day of the month of an ordinal day.
DaysBefore(y, m) ==
    LET c == CASE m = 1 -> 0 [] m = 2 -> 31 [] m = 3 -> 59 [] m = 4 -> 90
               [] m = 5 -> 120 [] m = 6 -> 151 [] m = 7 -> 181 [] m = 8 -> 212
               [] m = 9 -> 243 [] m = 10 -> 273 [] m = 11 -> 304 [] m = 12 -> 334
               [] OTHER -> 365
    IN  IF m > 2 /\ is_leap_year(y) THEN c + 1 ELSE c
month_day(dt) ==
    LET m == CHOOSE k \in 1..12 :
                 DaysBefore(dt.year, k) < dt.ordinal
                     /\ dt.ordinal <= DaysBefore(dt.year, k + 1)
    IN  <<m, dt.ordinal - DaysBefore(dt.year, m)>>

(***************************************************************************)
(* The resolver: fn try_local_offset_at, one branch per host.              *)
(***************************************************************************)
as_u16(x) == x % (U16Max + 1)

\* 1900 + tm.tm_year in i32.
year_of_tm(tm_year, checks) ==
    IF tm_year > I32Max - 1900
    THEN (IF checks THEN Overflow ELSE Val((tm_year - I32Max - 1) + (1900 - I32Max - 1)))
    ELSE Val(1900 + tm_year)

\* u16::try_from(tm.tm_yday).ok()? + 1, once the conversion went through.
ordinal_of_tm(tm_yday, checks) ==
    IF tm_yday = U16Max THEN (IF checks THEN Overflow ELSE Val(0))
    ELSE Val(tm_yday + 1)

\* timestamp_to_tm: the instant must fit time_t, and localtime_r must not
\* return null; its output is read only then.
timestamp_to_tm(e, ts, o) ==
    IF e.time_t_bits = 32 /\ ~FitsI32(ts) THEN [tag |-> "None"]
    ELSE IF o.failed THEN [tag |-> "None"]
    ELSE IF ~o.tm.init THEN [tag |-> "ub"]
    ELSE [tag |-> "Some"]

\* #[cfg(gmtoff_ext)]
unix_gmtoff(tm) == checked_offset(tm.tm_gmtoff)

\* The instant the broken-down local time would be, were it UTC: null when
\* a conversion or the calendar refuses the fields.
local_timestamp(tm, checks) ==
    LET sec == IF tm.tm_sec = 60 THEN 59 ELSE tm.tm_sec
        year == year_of_tm(tm.tm_year, checks)
        ordinal == ordinal_of_tm(tm.tm_yday, checks)
    IN  IF ~year.ok THEN [tag |-> "panic"]
        ELSE IF ~(0 <= tm.tm_yday /\ tm.tm_yday <= U16Max) THEN [tag |-> "None"]
        ELSE IF ~ordinal.ok THEN [tag |-> "panic"]
        ELSE IF ~from_yo(year.v, ordinal.v) THEN [tag |-> "None"]
        ELSE IF ~(0 <= tm.tm_hour /\ tm.tm_hour <= U8Max) THEN [tag |-> "None"]
        ELSE IF ~(0 <= tm.tm_min /\ tm.tm_min <= U8Max) THEN [tag |-> "None"]
        ELSE IF ~(0 <= sec /\ sec <= U8Max) THEN [tag |-> "None"]
        ELSE IF ~try_with_hms(tm.tm_hour, tm.tm_min, sec) THEN [tag |-> "None"]
        ELSE [tag |-> "Some",
              w |-> timestamp([year |-> year.v, ordinal |-> ordinal.v,
                               hour |-> tm.tm_hour, minute |-> tm.tm_min,
                               second |-> sec])]

\* The fallback that takes the difference the other way round.
unix_fallback_reversed(tm, ts, checks) ==
    LET l == local_timestamp(tm, checks)
    IN  IF l.tag = "panic" THEN Panic
        ELSE IF l.tag = "None" THEN None
        ELSE checked_offset(WSub(ts, l.w))

\* #[cfg(not(gmtoff_ext))]
unix_fallback(tm, ts, checks) ==
    LET l == local_timestamp(tm, checks)
    IN  IF l.tag = "panic" THEN Panic
        ELSE IF l.tag = "None" THEN None
        ELSE checked_offset(WSub(l.w, ts))

\* offset_to_systemtime: every field by an `as u16` cast.
offset_to_systemtime(dt) ==
    [wYear |-> as_u16(dt.year), wMonth |-> as_u16(month_day(dt)[1]),
     wDay |-> as_u16(month_day(dt)[2]), wDayOfWeek |-> 0,
     wHour |-> as_u16(dt.hour), wMinute |-> as_u16(dt.minute),
     wSecond |-> as_u16(dt.second), wMilliseconds |-> 0]

\* filetime_to_secs: the 64-bit count of 100 ns intervals, divided by
\* FT_TO_SECS.  A FILETIME is held as the whole seconds [d, s] and the
\* remaining intervals, and the division drops the intervals.
filetime_to_secs(ft) == W(ft.d, ft.s)

\* #[cfg(windows)]
windows(o) ==
    IF ~o.tz_ok THEN None
    ELSE IF ~o.local.init THEN [tag |-> "ub"]
    ELSE IF ~o.ft_system_ok THEN None
    ELSE IF ~o.ft_local_ok THEN None
    ELSE IF ~(o.ft_system.init /\ o.ft_local.init) THEN [tag |-> "ub"]
    ELSE checked_offset(WSub(filetime_to_secs(o.ft_local),
                             filetime_to_secs(o.ft_system)))

\* #[cfg(cargo_web)]: the number the script returns, converted to i32 by
\* stdweb's TryInto, which refuses what is no whole number.
cargo_web(o) == IF ~o.whole THEN None ELSE checked_offset(o.timezone_offset)

try_local_offset_at(e, dt, o) ==
    CASE e.platform \in {"unix_gmtoff", "unix"} ->
            LET t == timestamp_to_tm(e, timestamp(dt), o)
            IN  IF t.tag # "Some" THEN t
                ELSE IF e.platform = "unix_gmtoff" THEN unix_gmtoff(o.tm)
                ELSE unix_fallback(o.tm, timestamp(dt), e.overflow_checks)
      [] e.platform = "windows" -> windows(o)
      [] e.platform = "cargo_web" -> cargo_web(o)
      [] OTHER -> None

IndeterminateOffsetError == [tag |-> "Err", error |-> "IndeterminateOffsetError"]

\* try_local_offset_at(datetime).unwrap_or(Self::UTC)
local_offset_at(e, dt, o) ==
    LET r == try_local_offset_at(e, dt, o)
    IN  IF r.tag = "Some" THEN Value(r.seconds)
        ELSE IF r.tag = "None" THEN Value(UTC)
        ELSE r

\* The strict entry point that hides a failure like the best-effort one.
try_local_offset_at_or_utc(e, dt, o) ==
    LET r == try_local_offset_at(e, dt, o)
    IN  IF r.tag = "Some" THEN Ok(r.seconds)
        ELSE IF r.tag = "None" THEN Ok(UTC)
        ELSE r

\* UtcOffset::try_local_offset_at:
\* try_local_offset_at(datetime).ok_or(IndeterminateOffsetError)
UtcOffset_try_local_offset_at(e, dt, o) ==
    LET r == try_local_offset_at(e, dt, o)
    IN  IF r.tag = "Some" THEN Ok(r.seconds)
        ELSE IF r.tag = "None" THEN IndeterminateOffsetError
        ELSE r

\* try_local_offset_at(now).unwrap_or(Self::UTC), now being
\* OffsetDateTime::now_utc().
current_local_offset(e, now, o) ==
    LET r == try_local_offset_at(e, now, o)
    IN  IF r.tag = "Some" THEN Value(r.seconds)
        ELSE IF r.tag = "None" THEN Value(UTC)
        ELSE r

\* try_local_offset_at(now).ok_or(IndeterminateOffsetError)
try_current_local_offset(e, now, o) ==
    LET r == try_local_offset_at(e, now, o)
    IN  IF r.tag = "Some" THEN Ok(r.seconds)
        ELSE IF r.tag = "None" THEN IndeterminateOffsetError
        ELSE r

(***************************************************************************)
(* Instants, builds and what the host may answer.                          *)
(***************************************************************************)
DateTime(y, o, h, m, s) ==
    [year |-> y, ordinal |-> o, hour |-> h, minute |-> m, second |-> s]
NoDateTime == DateTime(0, 0, 0, 0, 0)

\* The epoch, a leap day, the first second past a 32-bit time_t, years past
\* 16 bits and before year 0.
Instants ==
    {DateTime(1970, 1, 0, 0, 0), DateTime(2020, 60, 12, 30, 15),
     DateTime(2038, 19, 3, 14, 8), DateTime(70000, 1, 0, 0, 0),
     DateTime(-1, 1, 0, 0, 0)}

Envs ==
    [platform : {"unix_gmtoff", "unix"}, time_t_bits : {32, 64},
     overflow_checks : BOOLEAN]
        \cup [platform : {"windows", "cargo_web", "other"}, time_t_bits : {64},
              overflow_checks : BOOLEAN]

\* Offsets a host may report, in seconds; a zone may lie a day or more from
\* UTC.
Shifts == {-90000, -86400, -86399, -3600, -1, 0, 1, 3600, 19800, 86399, 86400}
\* Values past 32 bits: 2^32 + 3600, 2^31 and -2^31 - 1.
WidePast32 == {W(49710, 26896), W(24855, 11648), W(-24856, 74751)}

Tm(init, y, yd, h, m, s, off) ==
    [init |-> init, tm_year |-> y, tm_yday |-> yd, tm_hour |-> h, tm_min |-> m,
     tm_sec |-> s, tm_gmtoff |-> off]
UninitTm == Tm(FALSE, 0, 0, 0, 0, 0, W(0, 0))

\* The broken-down time of the instant dt moved by k seconds.
LocalTm(dt, k) ==
    LET total == dt.hour * 3600 + dt.minute * 60 + dt.second + k
        sod == total % 86400
        o1 == dt.ordinal + (total \div 86400)
        y == IF o1 < 1 THEN dt.year - 1
             ELSE IF o1 > days_in_year(dt.year) THEN dt.year + 1 ELSE dt.year
        o == IF o1 < 1 THEN o1 + days_in_year(dt.year - 1)
             ELSE IF o1 > days_in_year(dt.year) THEN o1 - days_in_year(dt.year)
             ELSE o1
    IN  Tm(TRUE, y - 1900, o - 1, sod \div 3600, (sod \div 60) % 60, sod % 60, W(0, k))

\* Broken-down times with one field the calendar or its type cannot hold.
OddTms(dt) ==
    LET b == LocalTm(dt, 0)
    IN  {[b EXCEPT !.tm_year = v] : v \in {I32Max, I32Max - 1900, 98101}}
        \cup {[b EXCEPT !.tm_yday = v] : v \in {-1, 366, U16Max, U16Max + 1}}
        \cup {[b EXCEPT !.tm_hour = v] : v \in {-1, 24, U8Max + 1}}
        \cup {[b EXCEPT !.tm_min = v] : v \in {-1, 60, U8Max + 1}}
        \cup {[b EXCEPT !.tm_sec = v] : v \in {-1, 60, 61, U8Max + 1}}
        \cup {[b EXCEPT !.tm_gmtoff = v] : v \in WidePast32}

\* localtime_r: null and nothing written, or a tm.
UnixAnswers(dt) ==
    {[kind |-> "unix", failed |-> TRUE, tm |-> UninitTm]}
        \cup {[kind |-> "unix", failed |-> FALSE, tm |-> t] :
                t \in {LocalTm(dt, k) : k \in Shifts} \cup OddTms(dt)}

FileTime(init, w) == [init |-> init, d |-> w.d, s |-> w.s, ticks |-> 0]
UninitFt == FileTime(FALSE, W(0, 0))
\* 1601-01-01 is 134774 days before the epoch.
FtOf(st) ==
    FileTime(TRUE,
             W(DaysFromEpoch(st.wYear, DaysBefore(st.wYear, st.wMonth) + st.wDay)
                   + 134774,
               st.wHour * 3600 + st.wMinute * 60 + st.wSecond))

\* SystemTimeToTzSpecificLocalTime and SystemTimeToFileTime refuse a year
\* outside 1601..30827 and may fail otherwise; what they leave unwritten on
\* failure is uninitialized.
WinAnswer(st, tz, fs, fl, loc) ==
    [kind |-> "windows", systime_utc |-> st, tz_ok |-> tz,
     local |-> [init |-> tz], ft_system_ok |-> fs,
     ft_system |-> IF fs THEN FtOf(st) ELSE UninitFt, ft_local_ok |-> fl,
     ft_local |-> IF fl THEN loc ELSE UninitFt]
WindowsAnswers(st) ==
    {WinAnswer(st, FALSE, FALSE, FALSE, UninitFt)}
        \cup IF 1601 <= st.wYear /\ st.wYear <= 30827
             THEN {WinAnswer(st, TRUE, FALSE, FALSE, UninitFt),
                   WinAnswer(st, TRUE, TRUE, FALSE, UninitFt)}
                  \cup {WinAnswer(st, TRUE, TRUE, TRUE,
                                  FileTime(TRUE, W(FtOf(st).d + w.d, FtOf(st).s + w.s))) :
                          w \in {W(0, k) : k \in Shifts} \cup WidePast32}
             ELSE {}

\* getTimezoneOffset() * -60: a whole number, or NaN for a date out of range.
CargoWebAnswers ==
    {[kind |-> "cargo_web", whole |-> FALSE, timezone_offset |-> W(0, 0)]}
        \cup {[kind |-> "cargo_web", whole |-> TRUE, timezone_offset |-> w] :
                w \in {W(0, k) : k \in Shifts} \cup WidePast32}

OsAnswers(e, dt) ==
    CASE e.platform \in {"unix_gmtoff", "unix"} -> UnixAnswers(dt)
      [] e.platform = "windows" -> WindowsAnswers(offset_to_systemtime(dt))
      [] e.platform = "cargo_web" -> CargoWebAnswers
      [] OTHER -> {[kind |-> "other"]}

(***************************************************************************)
(* Arguments.                                                              *)
(***************************************************************************)
I8Args == I8Min..I8Max
U8Args == 0..U8Max
I16Args == ((-1439 - Slack)..(1439 + Slack)) \cup {I16Min, I16Max}
U16Args == (0..(1439 + Slack)) \cup {U16Max}
I32Args == ((-86399 - Slack)..(86399 + Slack)) \cup {I32Min, I32Max}
\* u32 values above i32::MAX are out of every bound like i32::MAX is.
U32Args == (0..(86399 + Slack)) \cup {I32Max}
UncheckedArgs ==
    ((-86399 - Slack)..(-86399 + Slack)) \cup ((-Slack)..Slack)
        \cup ((86399 - Slack)..(86399 + Slack))
        \cup {I32Min, I8Min * 3600, I16Min * 60, I32Max}

\* The build and host a run is of; it is recorded by the first operation
\* whose result depends on it.
NoEnv == [platform |-> "unset", time_t_bits |-> 64, overflow_checks |-> FALSE]
NoCall == [op |-> "none", arg |-> 0]
NoRet == [tag |-> "none"]
NoSelf == [some |-> FALSE, seconds |-> 0]
NoOs == [kind |-> "none"]
NoRaw == [tag |-> "none"]
NoInput == [s |-> "", format |-> ""]

Init ==
    /\ env = NoEnv
    /\ pc = "start"
    /\ call = NoCall
    /\ ret = NoRet
    /\ self = NoSelf
    /\ os = NoOs
    /\ raw = NoRaw
    /\ datetime = NoDateTime
    /\ acc = "none"
    /\ out = NoRet
    /\ input = NoInput
    /\ items = NoRet
    /\ parsed = NoRet

\* A constructor was called with `arg` and returned `r`.
Returned(op, arg, r) ==
    /\ call' = [op |-> op, arg |-> arg]
    /\ ret' = r
    /\ self' = IF r.tag \in {"Ok", "Value"}
               THEN [some |-> TRUE, seconds |-> r.seconds] ELSE NoSelf
    /\ pc' = CASE r.tag \in {"Ok", "Value"} -> "built"
               [] r.tag = "Err" -> "failed"
               [] OTHER -> "panicked"
    /\ UNCHANGED <<acc, out>>

Construct(op, arg, r) ==
    /\ Returned(op, arg, r)
    /\ UNCHANGED <<env, datetime, os, raw, input, items, parsed>>

\* An entry point of the resolver was called for the instant dt, in the
\* build e, and the host answered o.
Resolve(op, e, dt, o, r) ==
    /\ Returned(op, 0, r)
    /\ env' = e
    /\ datetime' = dt
    /\ os' = o
    /\ raw' = try_local_offset_at(e, dt, o)
    /\ UNCHANGED <<input, items, parsed>>

LocalOffsetAt ==
    /\ pc = "start"
    /\ \E e \in Envs, dt \in Instants : \E o \in OsAnswers(e, dt) :
          Resolve("local_offset_at", e, dt, o, local_offset_at(e, dt, o))

TryLocalOffsetAt ==
    /\ pc = "start"
    /\ \E e \in Envs, dt \in Instants : \E o \in OsAnswers(e, dt) :
          Resolve("try_local_offset_at", e, dt, o,
                  UtcOffset_try_local_offset_at(e, dt, o))

\* The two entry points for now: the instant is what the clock says.
CurrentLocalOffset ==
    /\ pc = "start"
    /\ \E e \in Envs, now \in Instants : \E o \in OsAnswers(e, now) :
          Resolve("current_local_offset", e, now, o, current_local_offset(e, now, o))

TryCurrentLocalOffset ==
    /\ pc = "start"
    /\ \E e \in Envs, now \in Instants : \E o \in OsAnswers(e, now) :
          Resolve("try_current_local_offset", e, now, o,
                  try_current_local_offset(e, now, o))

EastHours == pc = "start" /\ \E h \in U8Args : Construct("east_hours", h, east_hours(h))
WestHours == pc = "start" /\ \E h \in U8Args : Construct("west_hours", h, west_hours(h))
Hours == pc = "start" /\ \E h \in I8Args : Construct("hours", h, hours(h))
EastMinutes == pc = "start" /\ \E m \in U16Args : Construct("east_minutes", m, east_minutes(m))
WestMinutes == pc = "start" /\ \E m \in U16Args : Construct("west_minutes", m, west_minutes(m))
Minutes == pc = "start" /\ \E m \in I16Args : Construct("minutes", m, minutes(m))
EastSeconds == pc = "start" /\ \E s \in U32Args : Construct("east_seconds", s, east_seconds(s))
WestSeconds == pc = "start" /\ \E s \in U32Args : Construct("west_seconds", s, west_seconds(s))
Seconds == pc = "start" /\ \E s \in I32Args : Construct("seconds", s, seconds(s))
SecondsUnchecked ==
    pc = "start" /\ \E s \in UncheckedArgs : Construct("seconds_unchecked", s, seconds_unchecked(s))
Utc == pc = "start" /\ Construct("UTC", 0, Value(UTC))

\* An accessor was applied to the value built.
Use(op, r) ==
    /\ pc = "built"
    /\ acc' = op
    /\ out' = r
    /\ pc' = "used"
    /\ UNCHANGED <<env, call, datetime, os, raw, ret, self, input, items, parsed>>

IntRet(v) == [tag |-> "Int", value |-> v]

AsSeconds == Use("as_seconds", IntRet(as_seconds(self.seconds)))
AsMinutes == Use("as_minutes", IntRet(as_minutes(self.seconds)))
AsHours == Use("as_hours", IntRet(as_hours(self.seconds)))

AsDuration ==
    Use("as_duration", [tag |-> "Duration", value |-> as_duration(self.seconds)])

\* to_string(): Display::fmt, in the build the run is of.
Display ==
    /\ pc = "built"
    /\ \E checks \in BOOLEAN :
        /\ env.platform # "unset" => checks = env.overflow_checks
        /\ Use("fmt", fmt(self.seconds, checks))

Format == Use("format", format(self.seconds))

\* Texts and formats given to parse: the compact texts of the tests and of
\* the ends of the day, texts that are no compact offset, and formats with
\* and without the offset specifier.
ParseTexts ==
    {"+0100", "-0100", "+0000", "-0000", "+0001", "-0001", "+2359", "-2359",
     "+0530", "+2400", "-9959", "0100", "+01", "+01:00", "+1", "", "12",
     "12+0530", "12-0000", "1x", "+0100 "}
Formats == {"%z", "%H", "%H%z"}

\* What a call of parse leaves: the input, what the engine made of it and
\* what parse returned.
Parsed(s, f) ==
    /\ input' = [s |-> s, format |-> f]
    /\ items' = parse_items(s, f)
    /\ parsed' = parse(s, f)

\* UtcOffset::parse(s, format), as a way to an offset.
Parse ==
    /\ pc = "start"
    /\ \E s \in ParseTexts, f \in Formats :
          /\ Parsed(s, f)
          /\ Returned("parse", 0, parse(s, f))
          /\ UNCHANGED <<env, datetime, os, raw>>

\* UtcOffset::parse(x.format("%z"), "%z"): the text format wrote, read back.
ParseFormatted ==
    /\ pc = "used" /\ acc = "format" /\ out.tag = "Text"
    /\ Parsed(out.text, "%z")
    /\ pc' = "parsed"
    /\ UNCHANGED <<env, call, datetime, os, raw, ret, self, acc, out>>

Next ==
    \/ Utc
    \/ EastHours \/ WestHours \/ Hours
    \/ EastMinutes \/ WestMinutes \/ Minutes
    \/ EastSeconds \/ WestSeconds \/ Seconds
    \/ SecondsUnchecked
    \/ LocalOffsetAt \/ TryLocalOffsetAt
    \/ CurrentLocalOffset \/ TryCurrentLocalOffset
    \/ AsSeconds \/ AsMinutes \/ AsHours \/ AsDuration
    \/ Display \/ Format
    \/ Parse \/ ParseFormatted

Spec == Init /\ [][Next]_vars

(***************************************************************************)
(* The claims.                                                             *)
(***************************************************************************)
InDay(s) == -86399 <= s /\ s <= 86399
Checked ==
    {"east_hours", "west_hours", "hours", "east_minutes", "west_minutes",
     "minutes", "east_seconds", "west_seconds", "seconds"}
Called == pc \in {"built", "failed", "panicked", "used"}

\* C1, as stated: every UtcOffset value obtained through any public
\* construction path, seconds_unchecked included, holds seconds within
\* -86399..86399.
C1_EveryPathInDay == self.some => InDay(self.seconds)

\* C1, amended: every UtcOffset value obtained from the UTC constant, a checked
\* constructor or a local-offset entry point holds seconds within
\* -86399..86399; seconds_unchecked stores its argument as it is, so its
\* value is within the range exactly when its argument is.
C1_CheckedPathsInDay ==
    self.some =>
        /\ call.op # "seconds_unchecked" => InDay(self.seconds)
        /\ call.op = "seconds_unchecked" => self.seconds = call.arg

C1_Witness ==
    /\ pc = "built" /\ call.op = "west_seconds" /\ self.some
    /\ self.seconds = -86399

\* The documented bounds of a checked constructor, its unit in seconds and
\* the signed constructor it is a direction of.
LoOf(op) ==
    CASE op = "hours" -> -23 [] op = "minutes" -> -1439 [] op = "seconds" -> -86399
      [] OTHER -> 0
HiOf(op) ==
    CASE op \in {"east_hours", "west_hours", "hours"} -> 23
      [] op \in {"east_minutes", "west_minutes", "minutes"} -> 1439
      [] OTHER -> 86399
UnitOf(op) ==
    CASE op \in {"east_hours", "west_hours", "hours"} -> 3600
      [] op \in {"east_minutes", "west_minutes", "minutes"} -> 60
      [] OTHER -> 1
IsWest(op) == op \in {"west_hours", "west_minutes", "west_seconds"}
Signed(op, n) ==
    CASE op \in {"east_hours", "west_hours", "hours"} -> hours(n)
      [] op \in {"east_minutes", "west_minutes", "minutes"} -> minutes(n)
      [] OTHER -> seconds(n)

\* C2: each checked constructor returns Ok exactly when its argument is within
\* its documented bound and a ComponentRangeError otherwise; on success the
\* seconds stored are the argument times 3600, 60 or 1, negated for west_*,
\* so east_X(n) = X(n) and west_X(n) = X(-n).
C2_CheckedConstructors ==
    (Called /\ call.op \in Checked) =>
        LET n == call.arg
            inb == LoOf(call.op) <= n /\ n <= HiOf(call.op)
        IN  /\ ret.tag = "Ok" <=> inb
            /\ ~inb => ret.tag = "Err" /\ ret.error = "ComponentRangeError"
            /\ inb => /\ ret.seconds
                            = (IF IsWest(call.op) THEN -n ELSE n) * UnitOf(call.op)
                      /\ ret = Signed(call.op, IF IsWest(call.op) THEN -n ELSE n)

C2_Witness ==
    /\ pc = "built" /\ call.op = "west_minutes" /\ call.arg = 1439
    /\ ret = Ok(-86340)

\* C3: an accessor gives back what the constructor was given: hours(h) has
\* as_hours h and as_minutes h*60, minutes(m) has as_seconds m*60 and
\* as_minutes m, seconds(s) has as_seconds s.
C3_RoundTrip ==
    (pc = "used" /\ out.tag = "Int") =>
        /\ (call.op = "hours" /\ acc = "as_hours") => out.value = call.arg
        /\ (call.op = "hours" /\ acc = "as_minutes") => out.value = call.arg * 60
        /\ (call.op = "minutes" /\ acc = "as_seconds") => out.value = call.arg * 60
        /\ (call.op = "minutes" /\ acc = "as_minutes") => out.value = call.arg
        /\ (call.op = "seconds" /\ acc = "as_seconds") => out.value = call.arg

C3_Witness ==
    /\ pc = "used" /\ call.op = "hours" /\ call.arg = -23
    /\ acc = "as_minutes" /\ out = IntRet(-1380)

\* The quotient of s by d rounded toward zero, from the magnitude of s.
TowardZero(s, d) == IF s < 0 THEN -((-s) \div d) ELSE s \div d

\* C4: for an offset within the day, as_hours is seconds/3600 and as_minutes
\* is seconds/60, both rounded toward zero, and neither narrowing wraps: the
\* results are within -23..23 and -1439..1439.
C4_TruncatingAccessors ==
    (pc = "used" /\ InDay(self.seconds)) =>
        /\ acc = "as_hours" =>
              /\ out.value = TowardZero(self.seconds, 3600)
              /\ -23 <= out.value /\ out.value <= 23
        /\ acc = "as_minutes" =>
              /\ out.value = TowardZero(self.seconds, 60)
              /\ -1439 <= out.value /\ out.value <= 1439

C4_Witness ==
    /\ pc = "used" /\ self.seconds = -3599 /\ acc = "as_hours"
    /\ out = IntRet(0)

TwoDigits(n) == Digit(n \div 10) \o Digit(n % 10)

\* The canonical text of s: the sign, H, then :MM if MM or SS is not zero,
\* then :SS if SS is not zero, where |s| = H*3600 + MM*60 + SS.
Canonical(s) ==
    LET a == IF s < 0 THEN -s ELSE s
        H == a \div 3600
        MM == (a % 3600) \div 60
        SS == a % 60
    IN  (IF s < 0 THEN "-" ELSE "+")
            \o (IF H >= 10 THEN TwoDigits(H) ELSE Digit(H))
            \o (IF MM # 0 \/ SS # 0 THEN ":" \o TwoDigits(MM) ELSE "")
            \o (IF SS # 0 THEN ":" \o TwoDigits(SS) ELSE "")

\* C5: Display of an offset within the day writes its canonical text.
C5_CanonicalDisplay ==
    (pc = "used" /\ acc = "fmt" /\ InDay(self.seconds)) =>
        out = Text(Canonical(self.seconds))

C5_Witness ==
    /\ pc = "used" /\ acc = "fmt" /\ self.seconds = -3601
    /\ out = Text("-1:00:01")

\* C6: an offset of exactly zero seconds, however it was constructed, is the
\* UTC value, has the canonical text "+0" and the compact text "+0000".
C6_ZeroSign ==
    /\ (pc \in {"built", "used"} /\ call.arg = 0
            /\ call.op \in Checked \cup {"UTC"}) =>
          (self.some /\ self.seconds = UTC)
    /\ (pc = "used" /\ self.seconds = 0) =>
          /\ acc = "fmt" => out = Text("+0")
          /\ acc = "format" => out = Text("+0000")

C6_Witness ==
    /\ pc = "used" /\ call.op = "west_hours" /\ call.arg = 0
    /\ acc = "fmt" /\ out = Text("+0")

Entry ==
    {"local_offset_at", "try_local_offset_at", "current_local_offset",
     "try_current_local_offset"}
BestEffort == {"local_offset_at", "current_local_offset"}
Resolved == Called /\ call.op \in Entry

\* C7: a best-effort entry point returns the offset the resolver found, or UTC
\* when it found none; a strict one returns Ok of the same offset, or
\* IndeterminateOffsetError; on a host that is neither unix, windows nor
\* cargo_web the resolver finds none.
C7_BestEffortAndStrict ==
    Resolved =>
        /\ raw.tag = "Some" =>
              /\ ret = IF call.op \in BestEffort THEN Value(raw.seconds)
                       ELSE Ok(raw.seconds)
              /\ self = [some |-> TRUE, seconds |-> raw.seconds]
        /\ raw.tag = "None" =>
              ret = IF call.op \in BestEffort THEN Value(UTC)
                    ELSE IndeterminateOffsetError
        /\ env.platform = "other" => raw.tag = "None"

C7_Witness ==
    /\ Resolved /\ call.op = "try_local_offset_at" /\ env.platform = "other"
    /\ raw = None /\ ret = IndeterminateOffsetError

\* C8: whatever the host answers, the resolver ends with an offset or with
\* none: no entry point panics and none reads what a failed call left
\* unwritten.
C8_NeverCrashes ==
    Resolved => (raw.tag \in {"Some", "None"} /\ ret.tag \in {"Ok", "Value", "Err"})

\* The OS-derived offset, before try_into and UtcOffset::seconds: tm_gmtoff,
\* the local timestamp less the instant, the FILETIME seconds' difference or
\* the script's number.
Derived ==
    LET no == [some |-> FALSE, w |-> W(0, 0)]
        ts == timestamp(datetime)
        got_tm == ~(env.time_t_bits = 32 /\ ~FitsI32(ts)) /\ ~os.failed
    IN  CASE env.platform = "unix_gmtoff" ->
                IF got_tm THEN [some |-> TRUE, w |-> os.tm.tm_gmtoff] ELSE no
          [] env.platform = "unix" ->
                IF got_tm /\ local_timestamp(os.tm, env.overflow_checks).tag = "Some"
                THEN [some |-> TRUE,
                      w |-> WSub(local_timestamp(os.tm, env.overflow_checks).w, ts)]
                ELSE no
          [] env.platform = "windows" ->
                IF os.tz_ok /\ os.ft_system_ok /\ os.ft_local_ok
                THEN [some |-> TRUE,
                      w |-> WSub(W(os.ft_local.d, os.ft_local.s),
                                 W(os.ft_system.d, os.ft_system.s))]
                ELSE no
          [] env.platform = "cargo_web" ->
                IF os.whole THEN [some |-> TRUE, w |-> os.timezone_offset] ELSE no
          [] OTHER -> no

\* A narrowing conversion of the call met a value its target cannot hold.
NarrowingLoss ==
    LET ts == timestamp(datetime)
        got_tm == ~(env.time_t_bits = 32 /\ ~FitsI32(ts)) /\ ~os.failed
    IN  \/ env.platform \in {"unix_gmtoff", "unix"} /\ env.time_t_bits = 32
              /\ ~FitsI32(ts)
        \/ env.platform = "unix" /\ got_tm
              /\ \E v \in {os.tm.tm_yday} : v < 0 \/ v > U16Max
        \/ env.platform = "unix" /\ got_tm
              /\ \E v \in {os.tm.tm_hour, os.tm.tm_min, os.tm.tm_sec} :
                    v < 0 \/ v > U8Max
        \/ env.platform = "windows" /\ (datetime.year < 0 \/ datetime.year > U16Max)
        \/ Derived.some /\ ~FitsI32(Derived.w)

\* C9: a narrowing conversion whose value does not fit its target makes the
\* resolver return none; the value is never wrapped and then used.  (Stated
\* for the calls that return, so that only a wrapped value violates it.)
C9_NarrowingRefused ==
    (Resolved /\ raw.tag # "panic" /\ NarrowingLoss) => raw.tag = "None"

WInDay(w) == WLe(W(0, -86399), w) /\ WLe(w, W(0, 86399))

\* C10: an offset the resolver returns is within -86399..86399, and when the
\* OS-derived offset is outside that range or past 32 bits the resolver
\* returns none.
C10_ResolverOutputBound ==
    Resolved =>
        /\ raw.tag = "Some" => InDay(raw.seconds)
        /\ (Derived.some /\ ~WInDay(Derived.w)) => raw.tag = "None"

C10_Witness ==
    /\ Resolved /\ env.platform = "unix_gmtoff" /\ Derived.some
    /\ Derived.w = W(0, 86400) /\ raw = None

\* The compact text of s: the sign and exactly four digits HHMM of the
\* magnitude of s, the seconds dropped.
Compact(s) ==
    LET a == IF s < 0 THEN -s ELSE s
    IN  (IF s < 0 THEN "-" ELSE "+")
            \o TwoDigits(a \div 3600) \o TwoDigits((a % 3600) \div 60)

\* C11: for every offset x within the day whose seconds component is zero,
\* x.format("%z") is the sign followed by exactly four digits HHMM and
\* parse(x.format("%z"), "%z") is Ok(x); parsing "-0000" gives UTC.
C11_CompactRoundTrip ==
    /\ (pc = "parsed" /\ InDay(self.seconds) /\ self.seconds % 60 = 0) =>
          /\ input = [s |-> Compact(self.seconds), format |-> "%z"]
          /\ Len(input.s) = 5
          /\ parsed = Ok(self.seconds)
    /\ input = [s |-> "-0000", format |-> "%z"] => parsed = Ok(UTC)

C11_Witness ==
    /\ pc = "parsed" /\ self.seconds = -19800
    /\ input = [s |-> "-0530", format |-> "%z"] /\ parsed = Ok(-19800)

\* C12: parse returns InsufficientInformation exactly when the engine
\* succeeded and the parsed items hold no offset; an error of the engine is
\* returned unchanged; an offset in the items is returned as Ok of exactly
\* that offset; parse never panics and never puts a default in its place.
C12_ParseResult ==
    input # NoInput =>
        /\ parsed.tag \in {"Ok", "Err"}
        /\ items.tag = "Err" => parsed = items
        /\ items.tag = "Ok" =>
              IF items.items.offset.some
              THEN parsed = Ok(items.items.offset.seconds)
              ELSE parsed = InsufficientInformation
        /\ parsed = InsufficientInformation =>
              (items.tag = "Ok" /\ ~items.items.offset.some)
        /\ call.op = "parse" => ret = parsed

C12_Witness ==
    /\ pc = "failed" /\ call.op = "parse"
    /\ input = [s |-> "12", format |-> "%H"]
    /\ items.tag = "Ok" /\ ~items.items.offset.some
    /\ parsed = InsufficientInformation

\* The local time the host reported was read and its fields are a time of
\* the calendar, 60 counted among the seconds.
FallbackRead ==
    /\ pc \in {"built", "failed"} /\ env.platform = "unix" /\ os.kind = "unix"
    /\ env.time_t_bits = 64 \/ FitsI32(timestamp(datetime))
    /\ ~os.failed
    /\ -101900 <= os.tm.tm_year /\ os.tm.tm_year <= 98100
    /\ 0 <= os.tm.tm_yday /\ os.tm.tm_yday < days_in_year(1900 + os.tm.tm_year)
    /\ os.tm.tm_hour \in 0..23 /\ os.tm.tm_min \in 0..59 /\ os.tm.tm_sec \in 0..60

\* L - t: the fields read as a UTC time, a second of 60 as 59, less the
\* instant asked about.
FallbackDiff ==
    WSub(W(DaysFromEpoch(1900 + os.tm.tm_year, os.tm.tm_yday + 1),
           os.tm.tm_hour * 3600 + os.tm.tm_min * 60
               + (IF os.tm.tm_sec = 60 THEN 59 ELSE os.tm.tm_sec)),
         timestamp(datetime))

\* C13: without a UTC-offset field the resolver reads the local time the
\* host reports for t as a UTC time L, a second of 60 as 59, and returns L - t
\* when it is within -86399..86399; so when the local time is t moved by k
\* seconds, |k| <= 86399, it returns the offset of k seconds.
C13_FallbackReconstruction ==
    FallbackRead =>
        /\ WInDay(FallbackDiff) =>
              raw = Some(FallbackDiff.d * 86400 + FallbackDiff.s)
        /\ ~WInDay(FallbackDiff) => raw = None
        /\ \A k \in Shifts :
              (InDay(k) /\ os.tm = LocalTm(datetime, k)) => raw = Some(k)

C13_Witness ==
    /\ FallbackRead /\ datetime = DateTime(1970, 1, 0, 0, 0)
    /\ os.tm = LocalTm(datetime, -3600) /\ os.tm.tm_year = 69 /\ os.tm.tm_yday = 364
    /\ raw = Some(-3600)

====
